---- MODULE Spec2Model ----
(***************************************************************************)
(* One turn of the agentic-RAG graph of                                    *)
(* backend/app/agents/agentic_rag: the entry routing decision, the four    *)
(* nodes RETRIEVE, GRADE_DOCUMENTS, WEBSEARCH and GENERATE, the two        *)
(* conditional edges, and the classifier chains that decide them.          *)
(* External collaborators (the Gemini clients, the Qdrant store, Tavily)   *)
(* are the environment: each call draws its outcome from a small set.      *)
(***************************************************************************)
EXTENDS Integers, Sequences, FiniteSets, TLC

\* ---------------------------------------------------------------- bounds
MaxGenerate == 4      \* GENERATE executions explored in one turn
MaxSnippets == 1      \* snippets returned by one web search
NumPages    == 2      \* pages of the ingested PDF held by the store
MaxBatch    == 3      \* documents in a batch handed to grade_documents alone
MaxCalls    == 2      \* query calls made on the service
MaxIngests  == 1      \* ingest_pdf calls made on the service
MaxNodeRuns == 4      \* node executions followed in each of two concurrent turns

\* ------------------------------------------------------------- constants
\* QdrantRetriever.__init__(..., k=1); get_retriever does not pass k
K == 1

\* node names (graph/consts.py)
RETRIEVE        == "retrieve"
GRADE_DOCUMENTS == "grade_documents"
GENERATE        == "generate"
WEBSEARCH       == "websearch"
END             == "__end__"

\* ----------------------------------------------------------------- text
\* Classifier responses are character sequences, so that lower(), strip()
\* and the substring tests of the graders are computed, not assumed.
RespYes      == <<"y", "e", "s">>
RespNo       == <<"n", "o">>
RespNoPadded == <<" ", "N", "o", "\n">>
RespTrue     == <<"T", "r", "u", "e">>
RespMaybe    == <<"m", "a", "y", "b", "e">>
Responses    == {RespYes, RespNoPadded, RespTrue, RespMaybe}

\* str.lower() on one character
LowerChar(c) ==
    CASE c = "N" -> "n"
      [] c = "T" -> "t"
      [] OTHER   -> c

\* str.lower()
Lower(s) == [i \in 1..Len(s) |-> LowerChar(s[i])]

IsSpace(c) == c \in {" ", "\n", "\t"}

\* str.strip()
RECURSIVE LStrip(_)
LStrip(s) == IF s # <<>> /\ IsSpace(Head(s)) THEN LStrip(Tail(s)) ELSE s

RECURSIVE RStrip(_)
RStrip(s) ==
    IF s # <<>> /\ IsSpace(s[Len(s)]) THEN RStrip(SubSeq(s, 1, Len(s) - 1)) ELSE s

Strip(s) == RStrip(LStrip(s))

\* the Python test  sub in s  on strings
Contains(sub, s) ==
    \E i \in 1..(Len(s) - Len(sub) + 1) : SubSeq(s, i, i + Len(sub) - 1) = sub

\* ------------------------------------------------------------- documents
Questions == {"q1", "q2"}

\* payload stored by ingest_pdf for page i: page_content, page, source
PageImages    == <<"png0", "png1", "png2", "png3">>
StorePoint(i) == [page_content |-> <<"data:image/png;base64,", PageImages[i + 1]>>, page |-> i]
StorePoints   == {StorePoint(i) : i \in 0..(NumPages - 1)}

\* metadata.get("type"); "absent" stands for a missing key (None)
MetaType(doc) == doc.metadata.type

IsImage(doc) == MetaType(doc) # "text"

\* ImageDocument built by retrieve() from one langchain Document
ImageDocOf(hit) ==
    [page_content |-> hit.page_content,
     page_number  |-> hit.page,
     metadata     |-> [page |-> hit.page, source |-> "pdf", type |-> "absent"]]

\* results of client.search(limit=k): at most k distinct points, best first
SearchResults ==
    {<<>>} \cup
    {s \in UNION {[1..n -> StorePoints] : n \in 1..K} :
        \A i, j \in 1..Len(s) : i # j => s[i] # s[j]}

\* "\n".join(snippets), as a token sequence
RECURSIVE Join(_)
Join(snips) ==
    IF snips = <<>> THEN <<>>
    ELSE IF Len(snips) = 1 THEN <<Head(snips)>>
    ELSE <<Head(snips), "\n">> \o Join(Tail(snips))

Snippets == {"snippet"}

\* web_search_tool.invoke(...)["results"]: a list of snippets
TavilyResults ==
    UNION {[1..n -> Snippets] : n \in 0..MaxSnippets}

\* the web document built without its text marker
WebDoc_unmarked(text) ==
    [page_content |-> text,
     page_number  |-> -1,
     metadata     |-> [page |-> -1, source |-> "web_search", type |-> "absent"]]

\* the ImageDocument that web_search() builds from the joined snippets
WebDoc(text) ==
    [page_content |-> text,
     page_number  |-> -1,
     metadata     |-> [page |-> -1, source |-> "web_search", type |-> "text"]]

\* ---------------------------------------------------------------- state
VARIABLES
    pc,            \* node the graph runs next, or END, or "ERROR"
    last,          \* node that ran last ("START" before the entry decision)
    error,         \* where the exception that ended the turn was raised
    llm,           \* which module-level llm clients could be constructed
    question,      \* GraphState.question
    documents,     \* GraphState.documents
    web_search,    \* GraphState.web_search
    generation,    \* GraphState.generation
    routerOut,     \* what the routing classifier did at the entry decision
    gradeIn,       \* batch given to the last grade_documents
    gradeOut,      \* relevance classifier outcome for each document of it
    hallOut,       \* what the grounding classifier does at the last gate
    ansOut,        \* what the answer classifier does at the last gate
    gateResult,    \* label returned by the last gate
    genFailed,     \* the generator call of the last GENERATE raised
    genRequest,    \* message parts sent to the generator by the last GENERATE
    genCount,      \* GENERATE executions so far
    wsCount,       \* WEBSEARCH executions so far (completed or raised)
    svc,           \* the AgenticRAGService object and the query calls on it
    mem            \* list objects and graph states of concurrently running turns

vars == <<pc, last, error, llm, question, documents, web_search, generation,
          routerOut, gradeIn, gradeOut, hallOut, ansOut, gateResult,
          genFailed, genRequest, genCount, wsCount, svc, mem>>

\* outcome of one call of a text-answering classifier
NoCall       == [raise |-> FALSE, text |-> <<>>, called |-> FALSE]
Raised       == [raise |-> TRUE, text |-> <<>>, called |-> TRUE]
Answered(t)  == [raise |-> FALSE, text |-> t, called |-> TRUE]
TextOutcomes == {Raised} \cup {Answered(t) : t \in Responses}

\* outcome of the structured-output answer classifier
AnswerOutcomes == {"yes", "no", "none", "raise"}

\* outcome of the structured-output routing classifier
RouterOutcomes == {"vectorstore", "websearch", "none", "raise"}

LlmFlags == [router : BOOLEAN, retrieval : BOOLEAN, hallucination : BOOLEAN,
             answer : BOOLEAN, generation : BOOLEAN]

\* ---------------------------------------------------------- the service
SessionIds == {"default", "other"}

\* a session dict: conversation_history may be missing as a key
SessionDict(has_history) ==
    [has_history |-> has_history, conversation_history |-> <<>>]

\* the response strings, by the parts the code formats into them
NoResponse == [kind |-> "none", question |-> "", body |-> <<>>,
               documents_line |-> 0, web_line |-> FALSE]

format_response(q, answer, documents_used, web_search_used) ==
    [kind |-> "answer", question |-> q, body |-> answer,
     documents_line |-> IF documents_used > 0 THEN documents_used ELSE 0,
     web_line |-> web_search_used]

generate_placeholder_response(q) ==
    [kind |-> "placeholder", question |-> q, body |-> <<>>,
     documents_line |-> 0, web_line |-> FALSE]

generate_error_response(q, err) ==
    [kind |-> "error", question |-> q, body |-> <<err>>,
     documents_line |-> 0, web_line |-> FALSE]

\* a query call that has not been made yet; during names the calls on the
\* same session id that are suspended on their graph run when this one is
IdleCall == [state |-> "idle", question |-> "", session_id |-> "",
             session_state |-> 0, response |-> NoResponse, during |-> {}]

\* AgenticRAGService.__init__: nothing uploaded, no session; heap holds the
\* session dicts, session_states maps a session id to one of them (0: none)
NewService(dependencies_available) ==
    [is_initialized         |-> FALSE,
     dependencies_available |-> dependencies_available,
     heap                   |-> <<>>,
     session_states         |-> [sid \in SessionIds |-> 0],
     ingests                |-> 0,
     calls                  |-> [c \in 1..MaxCalls |-> IdleCall]]

\* ------------------------------------------------- turns as objects
\* the two graph runs of an interleaving, each started by a query call
TurnIds == {1, 2}

\* a reference to a list object: the turn that created it and its rank
\* among the lists of that turn
NoRef == [owner |-> 0, idx |-> 0]

\* a turn not started: its graph state, the list object its last node
\* received as state["documents"] and what that list held then
IdleTurn ==
    [pc |-> "idle", question |-> "", documents |-> NoRef,
     web_search |-> FALSE, generation |-> <<>>,
     input |-> NoRef, input_was |-> <<>>, runs |-> 0]

NewMemory ==
    [lists |-> [t \in TurnIds |-> <<>>],
     turns |-> [t \in TurnIds |-> IdleTurn]]

\* the contents of a list object
Deref(m, ref) == m.lists[ref.owner][ref.idx]

\* the reference the next list created by turn t gets
NewRef(m, t) == [owner |-> t, idx |-> Len(m.lists[t]) + 1]

Init ==
    /\ svc = NewService(TRUE)
    /\ mem = NewMemory
    /\ pc = "ROUTE"
    /\ last = "START"
    /\ error = "none"
    /\ llm \in LlmFlags
    /\ question \in Questions
    /\ documents = <<>>
    /\ web_search = FALSE
    /\ generation = <<>>
    /\ routerOut = "not_called"
    /\ gradeIn = <<>>
    /\ gradeOut = <<>>
    /\ hallOut = NoCall
    /\ ansOut = "not_called"
    /\ gateResult = "none"
    /\ genFailed = FALSE
    /\ genRequest = <<>>
    /\ genCount = 0
    /\ wsCount = 0

\* ------------------------------------------------------ classifier chains
\* the entry decision sending every routed question to RETRIEVE
route_question_retrieve_first(out) ==
    IF ~llm.router THEN "RAISE"
    ELSE IF out \in {"raise", "none"} THEN "RAISE"
    ELSE RETRIEVE

\* chains/router.py: without a client question_router is the plain function
\* default_router, which has no .invoke; route_question has no try/except.
\* Returns the node to start at, or "RAISE".
route_question(out) ==
    IF ~llm.router THEN "RAISE"
    ELSE IF out \in {"raise", "none"} THEN "RAISE"
    ELSE IF out = WEBSEARCH THEN WEBSEARCH
    ELSE RETRIEVE

\* the relevance grader failing closed: a failed call grades "no"
retrieval_grader_closed(out) ==
    IF ~llm.retrieval THEN "yes"
    ELSE IF out.raise THEN "no"
    ELSE IF Contains(RespYes, Strip(Lower(out.text))) THEN "yes" ELSE "no"

\* chains/retrieval_grader.py: binary_score "yes" / "no"
retrieval_grader(out) ==
    IF ~llm.retrieval THEN "yes"
    ELSE IF out.raise THEN "yes"
    ELSE IF Contains(RespYes, Strip(Lower(out.text))) THEN "yes" ELSE "no"

\* the grounding grader failing closed: not grounded without an answer
hallucination_grader_closed(out) ==
    IF ~llm.hallucination THEN FALSE
    ELSE IF out.raise THEN FALSE
    ELSE LET response_text == Strip(Lower(out.text))
         IN  Contains(RespYes, response_text) \/ Contains(Lower(RespTrue), response_text)

\* chains/hallucination_grader.py: binary_score True / False
hallucination_grader(out) ==
    IF ~llm.hallucination THEN TRUE
    ELSE IF out.raise THEN TRUE
    ELSE LET response_text == Strip(Lower(out.text))
         IN  Contains(RespYes, response_text) \/ Contains(Lower(RespTrue), response_text)

\* the loop with the flag following the last graded document only
RECURSIVE grade_loop_last_wins(_, _, _, _)
grade_loop_last_wins(docs, outs, filtered_docs, ws) ==
    IF docs = <<>> THEN [documents |-> filtered_docs, web_search |-> ws]
    ELSE LET grade == retrieval_grader(Head(outs))
         IN  IF grade = "yes"
             THEN grade_loop_last_wins(Tail(docs), Tail(outs),
                                       Append(filtered_docs, Head(docs)), FALSE)
             ELSE grade_loop_last_wins(Tail(docs), Tail(outs), filtered_docs, TRUE)

\* the loop inserting each kept document at the front
RECURSIVE grade_loop_prepend(_, _, _, _)
grade_loop_prepend(docs, outs, filtered_docs, ws) ==
    IF docs = <<>> THEN [documents |-> filtered_docs, web_search |-> ws]
    ELSE LET grade == retrieval_grader(Head(outs))
         IN  IF grade = "yes"
             THEN grade_loop_prepend(Tail(docs), Tail(outs),
                                     <<Head(docs)>> \o filtered_docs, ws)
             ELSE grade_loop_prepend(Tail(docs), Tail(outs), filtered_docs, TRUE)

\* the loop setting the flag for an irrelevant document without dropping it
RECURSIVE grade_loop_keep_all(_, _, _, _)
grade_loop_keep_all(docs, outs, filtered_docs, ws) ==
    IF docs = <<>> THEN [documents |-> filtered_docs, web_search |-> ws]
    ELSE LET grade == retrieval_grader(Head(outs))
         IN  grade_loop_keep_all(Tail(docs), Tail(outs),
                                 Append(filtered_docs, Head(docs)),
                                 ws \/ grade # "yes")

\* nodes/grade_documents.py: the loop over the batch; outs[i] is what the
\* relevance classifier does for docs[i]
RECURSIVE grade_loop(_, _, _, _)
grade_loop(docs, outs, filtered_docs, ws) ==
    IF docs = <<>> THEN [documents |-> filtered_docs, web_search |-> ws]
    ELSE LET grade == retrieval_grader(Head(outs))
         IN  IF grade = "yes"
             THEN grade_loop(Tail(docs), Tail(outs), Append(filtered_docs, Head(docs)), ws)
             ELSE grade_loop(Tail(docs), Tail(outs), filtered_docs, TRUE)

\* grade_documents starting with the flag already set
grade_documents_flagged(docs, outs) == grade_loop(docs, outs, <<>>, TRUE)

\* nodes/grade_documents.py: filtered_docs = [], web_search = False, the loop
grade_documents(docs, outs) == grade_loop(docs, outs, <<>>, FALSE)

\* the edge after GRADE_DOCUMENTS ignoring the flag
decide_to_generate_skip(ws) == GENERATE

\* graph.py decide_to_generate
decide_to_generate(ws) == IF ws THEN WEBSEARCH ELSE GENERATE

\* the gate asking the Answer Classifier before the Grounding Classifier
gate_answer_first(docs, hall, ans) ==
    LET image_documents == SelectSeq(docs, IsImage)
        hallucination_grade ==
            IF image_documents # <<>> THEN hallucination_grader(hall) ELSE TRUE
    IN  IF ~llm.answer \/ ans \in {"raise", "none"} THEN "useful"
        ELSE IF ans # "yes" THEN "not useful"
        ELSE IF hallucination_grade THEN "useful" ELSE "not supported"

\* the gate checking grounding against every document, text included
gate_unfiltered(docs, hall, ans) ==
    LET hallucination_grade ==
            IF docs # <<>> THEN hallucination_grader(hall) ELSE TRUE
    IN  IF hallucination_grade
        THEN IF ~llm.answer \/ ans \in {"raise", "none"} THEN "useful"
             ELSE IF ans = "yes" THEN "useful" ELSE "not useful"
        ELSE "not supported"

\* graph.py grade_generation_grounded_in_documents_and_question: hall and
\* ans are what the two classifiers do if the gate calls them
grade_generation_grounded_in_documents_and_question(docs, hall, ans) ==
    LET image_documents == SelectSeq(docs, IsImage)
        hallucination_grade ==
            IF image_documents # <<>> THEN hallucination_grader(hall) ELSE TRUE
    IN  IF hallucination_grade
        THEN IF ~llm.answer \/ ans \in {"raise", "none"} THEN "useful"
             ELSE IF ans = "yes" THEN "useful" ELSE "not useful"
        ELSE "not supported"

\* ------------------------------------------------------------ generation
ErrorNotInitialized == <<"Error: LLM not initialized. Please check your API key configuration.">>

Fallback(q) ==
    <<"I apologize, but I encountered an error while processing the images to answer your question: ",
      q, ". Please try rephrasing your question or check if the images are properly formatted.">>

GenOutputs == {<<"answer">>}

PromptText(q) ==
    <<"Based on the images provided above, please answer the following question: ",
      q, "Instructions: ...", "Question: ", q, "Answer:">>

\* chains/generation.py: the message parts built from the working set
ImagePart(doc) == [type |-> "image_url", content |-> doc.page_content]

RECURSIVE ImageParts(_)
ImageParts(docs) ==
    IF docs = <<>> THEN <<>>
    ELSE IF MetaType(Head(docs)) # "text"
         THEN <<ImagePart(Head(docs))>> \o ImageParts(Tail(docs))
         ELSE ImageParts(Tail(docs))

RequestParts(docs, q) ==
    Append(ImageParts(docs), [type |-> "text", content |-> PromptText(q)])

\* generate without its fallback: a failed call leaves no answer text
generate_unguarded(q, raised, text) ==
    IF ~llm.generation THEN ErrorNotInitialized
    ELSE IF raised THEN <<>>
    ELSE text

\* chains/generation.py generation_chain + nodes/generate.py generate: the
\* new value of state.generation; the call raises or returns text
generate(q, raised, text) ==
    IF ~llm.generation THEN ErrorNotInitialized
    ELSE IF raised THEN Fallback(q)
    ELSE text

\* the edge mapping with the targets of the two negative labels exchanged
GenerateEdge_exchanged(label) ==
    CASE label = "not supported" -> WEBSEARCH
      [] label = "useful"        -> END
      [] label = "not useful"    -> GENERATE

\* the edge mapping with not useful leading back to retrieval
GenerateEdge_reretrieve(label) ==
    CASE label = "not supported" -> GENERATE
      [] label = "useful"        -> END
      [] label = "not useful"    -> RETRIEVE

\* the edge mapping with not supported ending the turn
GenerateEdge_giveup(label) ==
    CASE label = "not supported" -> END
      [] label = "useful"        -> END
      [] label = "not useful"    -> WEBSEARCH

\* the mapping of the conditional edge after GENERATE
GenerateEdge(label) ==
    CASE label = "not supported" -> GENERATE
      [] label = "useful"        -> END
      [] label = "not useful"    -> WEBSEARCH

\* --------------------------------------------------------------- actions
\* conditional entry point: route_question
Route ==
    /\ pc = "ROUTE"
    /\ \E out \in (IF llm.router THEN RouterOutcomes ELSE {"unavailable"}) :
         LET r == route_question(out)
         IN  /\ routerOut' = out
             /\ pc' = IF r = "RAISE" THEN "ERROR" ELSE r
             /\ error' = IF r = "RAISE" THEN "route" ELSE error
    /\ last' = "ROUTE"
    /\ UNCHANGED <<svc, mem, llm, question, documents, web_search, generation, gradeIn,
                   gradeOut, hallOut, ansOut, gateResult, genFailed,
                   genRequest, genCount, wsCount>>

\* nodes/retrieve.py, the store lookup succeeds
RetrieveOk ==
    /\ pc = RETRIEVE
    /\ \E hits \in SearchResults :
         documents' = [i \in 1..Len(hits) |-> ImageDocOf(hits[i])]
    /\ pc' = GRADE_DOCUMENTS
    /\ last' = RETRIEVE
    /\ UNCHANGED <<svc, mem, error, llm, question, web_search, generation, routerOut,
                   gradeIn, gradeOut, hallOut, ansOut, gateResult, genFailed,
                   genRequest, genCount, wsCount>>

\* retrieve swallowing the failure and returning no documents
RetrieveFail_silent ==
    /\ pc = RETRIEVE
    /\ pc' = GRADE_DOCUMENTS
    /\ error' = RETRIEVE
    /\ last' = RETRIEVE
    /\ UNCHANGED <<svc, mem, llm, question, documents, web_search, generation, routerOut,
                   gradeIn, gradeOut, hallOut, ansOut, gateResult, genFailed,
                   genRequest, genCount, wsCount>>

\* nodes/retrieve.py, get_retriever or retriever.invoke raises
RetrieveFail ==
    /\ pc = RETRIEVE
    /\ pc' = "ERROR"
    /\ error' = RETRIEVE
    /\ last' = RETRIEVE
    /\ UNCHANGED <<svc, mem, llm, question, documents, web_search, generation, routerOut,
                   gradeIn, gradeOut, hallOut, ansOut, gateResult, genFailed,
                   genRequest, genCount, wsCount>>

\* nodes/grade_documents.py followed by decide_to_generate
GradeDocuments ==
    /\ pc = GRADE_DOCUMENTS
    /\ \E outs \in [1..Len(documents) ->
                       IF llm.retrieval THEN TextOutcomes ELSE {NoCall}] :
         LET r == grade_documents(documents, outs)
         IN  /\ gradeIn' = documents
             /\ gradeOut' = outs
             /\ documents' = r.documents
             /\ web_search' = r.web_search
             /\ pc' = decide_to_generate(r.web_search)
    /\ last' = GRADE_DOCUMENTS
    /\ UNCHANGED <<svc, mem, error, llm, question, generation, routerOut, hallOut,
                   ansOut, gateResult, genFailed, genRequest, genCount, wsCount>>

\* web_search returning the new document alone
WebSearchOk_replacing ==
    /\ pc = WEBSEARCH
    /\ \E tavily_results \in TavilyResults :
         documents' = <<WebDoc(Join(tavily_results))>>
    /\ wsCount' = wsCount + 1
    /\ pc' = GENERATE
    /\ last' = WEBSEARCH
    /\ UNCHANGED <<svc, mem, error, llm, question, web_search, generation, routerOut,
                   gradeIn, gradeOut, hallOut, ansOut, gateResult, genFailed,
                   genRequest, genCount>>

\* web_search keeping a single search document in the working set
WebSearchOk_single ==
    /\ pc = WEBSEARCH
    /\ \E tavily_results \in TavilyResults :
         LET web_doc == WebDoc(Join(tavily_results))
             kept    == SelectSeq(documents, IsImage)
         IN  documents' = Append(kept, web_doc)
    /\ wsCount' = wsCount + 1
    /\ pc' = GENERATE
    /\ last' = WEBSEARCH
    /\ UNCHANGED <<svc, mem, error, llm, question, web_search, generation, routerOut,
                   gradeIn, gradeOut, hallOut, ansOut, gateResult, genFailed,
                   genRequest, genCount>>

\* nodes/web_search.py, the search succeeds
WebSearchOk ==
    /\ pc = WEBSEARCH
    /\ \E tavily_results \in TavilyResults :
         LET web_doc == WebDoc(Join(tavily_results))
         IN  documents' = IF documents # <<>> THEN Append(documents, web_doc)
                          ELSE <<web_doc>>
    /\ wsCount' = wsCount + 1
    /\ pc' = GENERATE
    /\ last' = WEBSEARCH
    /\ UNCHANGED <<svc, mem, error, llm, question, web_search, generation, routerOut,
                   gradeIn, gradeOut, hallOut, ansOut, gateResult, genFailed,
                   genRequest, genCount>>

\* nodes/web_search.py, web_search_tool.invoke raises (no try/except)
WebSearchFail ==
    /\ pc = WEBSEARCH
    /\ wsCount' = wsCount + 1
    /\ pc' = "ERROR"
    /\ error' = WEBSEARCH
    /\ last' = WEBSEARCH
    /\ UNCHANGED <<svc, mem, llm, question, documents, web_search, generation, routerOut,
                   gradeIn, gradeOut, hallOut, ansOut, gateResult, genFailed,
                   genRequest, genCount>>

\* nodes/generate.py followed by the gate on the new generation
Generate ==
    /\ pc = GENERATE
    /\ genCount < MaxGenerate
    /\ \E raised \in (IF llm.generation THEN BOOLEAN ELSE {FALSE}),
          text \in GenOutputs,
          hall \in (IF llm.hallucination /\ SelectSeq(documents, IsImage) # <<>>
                    THEN TextOutcomes ELSE {NoCall}),
          ans \in (IF llm.answer THEN AnswerOutcomes ELSE {"unavailable"}) :
         LET label == grade_generation_grounded_in_documents_and_question(
                          documents, hall, ans)
         IN  /\ generation' = generate(question, raised, text)
             /\ genFailed' = raised
             /\ genRequest' = IF llm.generation
                               THEN RequestParts(documents, question) ELSE <<>>
             /\ hallOut' = hall
             /\ ansOut' = ans
             /\ gateResult' = label
             /\ pc' = GenerateEdge(label)
    /\ genCount' = genCount + 1
    /\ last' = GENERATE
    /\ UNCHANGED <<svc, mem, error, llm, question, documents, web_search, routerOut,
                   gradeIn, gradeOut, wsCount>>

Next ==
    \/ Route
    \/ RetrieveOk
    \/ RetrieveFail
    \/ GradeDocuments
    \/ WebSearchOk
    \/ WebSearchFail
    \/ Generate

Spec == Init /\ [][Next]_vars

\* ------------------------------------ grade_documents and the gate alone
\* The two functions applied once to a working set drawn from a bounded
\* set: any sequence of distinct image and text documents.
BatchDocs ==
    {ImageDocOf(p) : p \in StorePoints} \cup {WebDoc(<<"snippet">>)}

Batches ==
    {b \in UNION {[1..n -> BatchDocs] : n \in 0..MaxBatch} :
        \A i, j \in 1..Len(b) : i # j => b[i] # b[j]}

InitFn ==
    /\ svc = NewService(TRUE)
    /\ mem = NewMemory
    /\ pc = "CALL"
    /\ last = "START"
    /\ error = "none"
    /\ llm \in {f \in LlmFlags : f.router /\ f.generation}
    /\ question = "q1"
    /\ documents \in Batches
    /\ web_search = FALSE
    /\ generation = <<"answer">>
    /\ routerOut = "not_called"
    /\ gradeIn = <<>>
    /\ gradeOut = <<>>
    /\ hallOut = NoCall
    /\ ansOut = "not_called"
    /\ gateResult = "none"
    /\ genFailed = FALSE
    /\ genRequest = <<>>
    /\ genCount = 0
    /\ wsCount = 0

\* nodes/grade_documents.py applied to the batch
CallGradeDocuments ==
    /\ pc = "CALL"
    /\ \E outs \in [1..Len(documents) ->
                       IF llm.retrieval THEN TextOutcomes ELSE {NoCall}] :
         LET r == grade_documents(documents, outs)
         IN  /\ gradeIn' = documents
             /\ gradeOut' = outs
             /\ documents' = r.documents
             /\ web_search' = r.web_search
    /\ pc' = "RETURNED"
    /\ last' = GRADE_DOCUMENTS
    /\ UNCHANGED <<svc, mem, error, llm, question, generation, routerOut, hallOut,
                   ansOut, gateResult, genFailed, genRequest, genCount, wsCount>>

\* graph.py grade_generation_grounded_in_documents_and_question applied to
\* the working set, whatever the two classifiers would answer
CallGate ==
    /\ pc = "CALL"
    /\ \E hall \in TextOutcomes, ans \in AnswerOutcomes :
         /\ hallOut' = hall
         /\ ansOut' = ans
         /\ gateResult' = grade_generation_grounded_in_documents_and_question(
                              documents, hall, ans)
    /\ pc' = "RETURNED"
    /\ last' = "gate"
    /\ UNCHANGED <<svc, mem, error, llm, question, documents, web_search, generation,
                   routerOut, gradeIn, gradeOut, genFailed, genRequest,
                   genCount, wsCount>>

NextFn ==
    \/ CallGradeDocuments
    \/ CallGate

SpecFn == InitFn /\ [][NextFn]_vars

\* --------------------------------------- a turn taken up after RETRIEVE
\* The rest of a turn for a retriever built with any k up to MaxBatch:
\* RETRIEVE has returned the k best pages and every llm client exists.
RetrievedBatches ==
    {[i \in 1..n |-> ImageDocOf(StorePoint(i - 1))] : n \in 0..MaxBatch}

InitBatch ==
    /\ svc = NewService(TRUE)
    /\ mem = NewMemory
    /\ pc = GRADE_DOCUMENTS
    /\ last = RETRIEVE
    /\ error = "none"
    /\ llm = [router |-> TRUE, retrieval |-> TRUE, hallucination |-> TRUE,
              answer |-> TRUE, generation |-> TRUE]
    /\ question = "q1"
    /\ documents \in RetrievedBatches
    /\ web_search = FALSE
    /\ generation = <<>>
    /\ routerOut = "vectorstore"
    /\ gradeIn = <<>>
    /\ gradeOut = <<>>
    /\ hallOut = NoCall
    /\ ansOut = "not_called"
    /\ gateResult = "none"
    /\ genFailed = FALSE
    /\ genRequest = <<>>
    /\ genCount = 0
    /\ wsCount = 0

\* the first GENERATE of the turn, with its gate
GenerateFirst ==
    /\ genCount = 0
    /\ Generate

\* the turn is followed up to its first GENERATE and the step after it
NextBatch ==
    \/ GradeDocuments
    \/ WebSearchOk
    \/ WebSearchFail
    \/ GenerateFirst

SpecBatch == InitBatch /\ [][NextBatch]_vars

\* ------------------------------------------------- the service's calls
\* what agentic_rag_graph.invoke hands back to query: an exception, or the
\* final state of a turn, without documents or with the retrieved page and
\* the flag of a web search
GraphResults ==
    {[raised |-> TRUE, generation |-> <<>>, documents_used |-> 0,
      web_search |-> FALSE]}
    \cup {[raised |-> FALSE, generation |-> g, documents_used |-> n,
           web_search |-> (n > 0)] :
            g \in GenOutputs, n \in {0, K}}

InitSvc ==
    /\ svc \in {NewService(d) : d \in BOOLEAN}
    /\ mem = NewMemory
    /\ pc = "SERVICE"
    /\ last = "START"
    /\ error = "none"
    /\ llm = [f \in DOMAIN CHOOSE l \in LlmFlags : TRUE |-> TRUE]
    /\ question = "q1"
    /\ documents = <<>>
    /\ web_search = FALSE
    /\ generation = <<>>
    /\ routerOut = "not_called"
    /\ gradeIn = <<>>
    /\ gradeOut = <<>>
    /\ hallOut = NoCall
    /\ ansOut = "not_called"
    /\ gateResult = "none"
    /\ genFailed = FALSE
    /\ genRequest = <<>>
    /\ genCount = 0
    /\ wsCount = 0

\* ingest_pdf: placeholder mode without dependencies; otherwise the file is
\* missing, or ingestion completes, or it raises and the handler falls back
IngestOutcomes(s) ==
    IF s.dependencies_available
    THEN {"not_found", "ingested", "failed"}
    ELSE {"placeholder"}

ingest_pdf(s, sid, outcome) ==
    IF outcome = "not_found"
    THEN [s EXCEPT !.ingests = @ + 1]
    ELSE [s EXCEPT !.ingests = @ + 1,
                   !.is_initialized = TRUE,
                   !.heap = Append(@, SessionDict(outcome = "ingested")),
                   !.session_states[sid] = Len(s.heap) + 1]

IngestPdf ==
    /\ pc = "SERVICE"
    /\ svc.ingests < MaxIngests
    /\ \E sid \in SessionIds, outcome \in IngestOutcomes(svc) :
          svc' = ingest_pdf(svc, sid, outcome)
    /\ UNCHANGED <<mem, pc, last, error, llm, question, documents, web_search,
                   generation, routerOut, gradeIn, gradeOut, hallOut, ansOut,
                   gateResult, genFailed, genRequest, genCount, wsCount>>

\* query up to its await: the upload check, the session lookup, the
\* placeholder return
query_enter(s, c, q, sid) ==
    LET known == s.session_states[sid] # 0
        ref   == IF known THEN s.session_states[sid] ELSE Len(s.heap) + 1
    IN  IF ~s.is_initialized
        THEN [s EXCEPT !.calls[c] =
                 [state |-> "raised", question |-> q, session_id |-> sid,
                  session_state |-> 0, response |-> NoResponse,
                  during |-> {}]]
        ELSE IF ~s.dependencies_available
        THEN [s EXCEPT !.calls[c] =
                 [state |-> "returned", question |-> q, session_id |-> sid,
                  session_state |-> s.session_states[sid],
                  response |-> generate_placeholder_response(q),
                  during |-> {}]]
        ELSE [s EXCEPT !.heap = IF known THEN @
                                ELSE Append(@, SessionDict(TRUE)),
                       !.calls[c] =
                 [state |-> "suspended", question |-> q, session_id |-> sid,
                  session_state |-> ref, response |-> NoResponse,
                  during |-> {d \in 1..MaxCalls :
                                 /\ s.calls[d].state = "suspended"
                                 /\ s.calls[d].session_id = sid}]]

QueryStart ==
    /\ pc = "SERVICE"
    /\ \E c \in 1..MaxCalls, q \in Questions, sid \in SessionIds :
          /\ svc.calls[c].state = "idle"
          /\ \A d \in 1..(c - 1) : svc.calls[d].state # "idle"
          /\ svc' = query_enter(svc, c, q, sid)
    /\ UNCHANGED <<mem, pc, last, error, llm, question, documents, web_search,
                   generation, routerOut, gradeIn, gradeOut, hallOut, ansOut,
                   gateResult, genFailed, genRequest, genCount, wsCount>>

query_resume_unguarded(s, c, result) ==
    LET call == s.calls[c]
        ref  == call.session_state
    IN  IF result.raised \/ ~s.heap[ref].has_history
        THEN [s EXCEPT !.calls[c].state = "raised"]
        ELSE [s EXCEPT
                !.heap[ref].conversation_history =
                    Append(@, [question |-> call.question,
                               answer |-> result.generation,
                               documents_used |-> result.documents_used,
                               web_search_used |-> result.web_search]),
                !.session_states[call.session_id] = ref,
                !.calls[c].state = "returned",
                !.calls[c].response =
                    format_response(call.question, result.generation,
                                    result.documents_used, result.web_search)]

\* query after its await: the graph's result, the history append on the
\* session dict looked up before the await, the store, the except clause
query_resume(s, c, result) ==
    LET call == s.calls[c]
        ref  == call.session_state
    IN  IF result.raised
        THEN [s EXCEPT !.calls[c].state = "returned",
                       !.calls[c].response =
                           generate_error_response(call.question, "graph")]
        ELSE IF ~s.heap[ref].has_history
        THEN [s EXCEPT !.calls[c].state = "returned",
                       !.calls[c].response =
                           generate_error_response(call.question, "KeyError")]
        ELSE [s EXCEPT
                !.heap[ref].conversation_history =
                    Append(@, [question |-> call.question,
                               answer |-> result.generation,
                               documents_used |-> result.documents_used,
                               web_search_used |-> result.web_search]),
                !.session_states[call.session_id] = ref,
                !.calls[c].state = "returned",
                !.calls[c].response =
                    format_response(call.question, result.generation,
                                    result.documents_used, result.web_search)]

QueryResume ==
    /\ pc = "SERVICE"
    /\ \E c \in 1..MaxCalls, result \in GraphResults :
          /\ svc.calls[c].state = "suspended"
          /\ svc' = query_resume(svc, c, result)
    /\ UNCHANGED <<mem, pc, last, error, llm, question, documents, web_search,
                   generation, routerOut, gradeIn, gradeOut, hallOut, ansOut,
                   gateResult, genFailed, genRequest, genCount, wsCount>>

clear_session(s, sid) ==
    IF s.session_states[sid] # 0
    THEN [s EXCEPT !.heap[s.session_states[sid]] = SessionDict(TRUE)]
    ELSE s

ClearSession ==
    /\ pc = "SERVICE"
    /\ \E sid \in SessionIds : svc' = clear_session(svc, sid)
    /\ UNCHANGED <<mem, pc, last, error, llm, question, documents, web_search,
                   generation, routerOut, gradeIn, gradeOut, hallOut, ansOut,
                   gateResult, genFailed, genRequest, genCount, wsCount>>

NextSvc ==
    \/ IngestPdf
    \/ QueryStart
    \/ QueryResume
    \/ ClearSession

SpecSvc == InitSvc /\ [][NextSvc]_vars

\* ------------------------------------------- two turns, interleaved
\* Two graph runs started by query, each in its executor thread, stepping
\* node by node in any order. Nodes read and write state["documents"] as a
\* reference to a list object.
InitObj ==
    /\ svc = NewService(TRUE)
    /\ mem = NewMemory
    /\ pc = "TURNS"
    /\ last = "START"
    /\ error = "none"
    /\ llm = [router |-> TRUE, retrieval |-> TRUE, hallucination |-> TRUE,
              answer |-> TRUE, generation |-> TRUE]
    /\ question = "q1"
    /\ documents = <<>>
    /\ web_search = FALSE
    /\ generation = <<>>
    /\ routerOut = "not_called"
    /\ gradeIn = <<>>
    /\ gradeOut = <<>>
    /\ hallOut = NoCall
    /\ ansOut = "not_called"
    /\ gateResult = "none"
    /\ genFailed = FALSE
    /\ genRequest = <<>>
    /\ genCount = 0
    /\ wsCount = 0

\* query building its graph_state from one shared, module-level list
start_turn_shared(m, t, q) ==
    [m EXCEPT
       !.lists[1] = IF @ = <<>> THEN << <<>> >> ELSE @,
       !.turns[t] = [IdleTurn EXCEPT !.pc = "ROUTE", !.question = q,
                                     !.documents = [owner |-> 1, idx |-> 1]]]

\* query: graph_state = {"question": question, "generation": "",
\* "web_search": False, "documents": []}, a new list each time
start_turn(m, t, q) ==
    [m EXCEPT
       !.lists[t] = Append(@, <<>>),
       !.turns[t] = [IdleTurn EXCEPT !.pc = "ROUTE", !.question = q,
                                     !.documents = NewRef(m, t)]]

StartTurn ==
    /\ pc = "TURNS"
    /\ \E t \in TurnIds, q \in Questions :
          /\ mem.turns[t].pc = "idle"
          /\ mem' = start_turn(mem, t, q)
    /\ UNCHANGED <<svc, pc, last, error, llm, question, documents, web_search,
                   generation, routerOut, gradeIn, gradeOut, hallOut, ansOut,
                   gateResult, genFailed, genRequest, genCount, wsCount>>

\* the conditional entry point of turn t
RouteTurn ==
    /\ pc = "TURNS"
    /\ \E t \in TurnIds, out \in RouterOutcomes :
          /\ mem.turns[t].pc = "ROUTE"
          /\ LET r == route_question(out)
             IN  mem' = [mem EXCEPT !.turns[t].pc =
                                        IF r = "RAISE" THEN "ERROR" ELSE r]
    /\ UNCHANGED <<svc, pc, last, error, llm, question, documents, web_search,
                   generation, routerOut, gradeIn, gradeOut, hallOut, ansOut,
                   gateResult, genFailed, genRequest, genCount, wsCount>>

\* nodes/retrieve.py on turn t: image_docs is a new list; the lookup may raise
retrieve(m, t, hits, raises) ==
    LET turn == m.turns[t]
        seen == [turn EXCEPT !.input = turn.documents,
                             !.input_was = Deref(m, turn.documents),
                             !.runs = @ + 1]
    IN  IF raises
        THEN [m EXCEPT !.turns[t] = [seen EXCEPT !.pc = "ERROR"]]
        ELSE [m EXCEPT
                !.lists[t] = Append(@, [i \in 1..Len(hits) |-> ImageDocOf(hits[i])]),
                !.turns[t] = [seen EXCEPT !.documents = NewRef(m, t),
                                          !.pc = GRADE_DOCUMENTS]]

RetrieveTurn ==
    /\ pc = "TURNS"
    /\ \E t \in TurnIds, hits \in SearchResults, raises \in BOOLEAN :
          /\ mem.turns[t].pc = RETRIEVE
          /\ mem.turns[t].runs < MaxNodeRuns
          /\ mem' = retrieve(mem, t, hits, raises)
    /\ UNCHANGED <<svc, pc, last, error, llm, question, documents, web_search,
                   generation, routerOut, gradeIn, gradeOut, hallOut, ansOut,
                   gateResult, genFailed, genRequest, genCount, wsCount>>

\* nodes/grade_documents.py on turn t: filtered_docs is a new list
grade_documents_node(m, t, outs) ==
    LET turn == m.turns[t]
        r    == grade_documents(Deref(m, turn.documents), outs)
    IN  [m EXCEPT
           !.lists[t] = Append(@, r.documents),
           !.turns[t] = [turn EXCEPT
                           !.input = turn.documents,
                           !.input_was = Deref(m, turn.documents),
                           !.runs = @ + 1,
                           !.documents = NewRef(m, t),
                           !.web_search = r.web_search,
                           !.pc = decide_to_generate(r.web_search)]]

GradeTurn ==
    /\ pc = "TURNS"
    /\ \E t \in TurnIds :
          /\ mem.turns[t].pc = GRADE_DOCUMENTS
          /\ mem.turns[t].runs < MaxNodeRuns
          /\ \E outs \in [1..Len(Deref(mem, mem.turns[t].documents))
                             -> {Answered(RespYes), Answered(RespNoPadded)}] :
                mem' = grade_documents_node(mem, t, outs)
    /\ UNCHANGED <<svc, pc, last, error, llm, question, documents, web_search,
                   generation, routerOut, gradeIn, gradeOut, hallOut, ansOut,
                   gateResult, genFailed, genRequest, genCount, wsCount>>

\* nodes/web_search.py on turn t: documents.append(web_doc) on the list it
\* received when that list is not empty, a new one-element list otherwise;
\* the search may raise
web_search_node(m, t, tavily_results, raises) ==
    LET turn    == m.turns[t]
        ref     == turn.documents
        web_doc == WebDoc(Join(tavily_results))
        seen    == [turn EXCEPT !.input = ref,
                                !.input_was = Deref(m, ref),
                                !.runs = @ + 1]
    IN  IF raises
        THEN [m EXCEPT !.turns[t] = [seen EXCEPT !.pc = "ERROR"]]
        ELSE IF Deref(m, ref) # <<>>
        THEN [m EXCEPT
                !.lists[ref.owner][ref.idx] = Append(@, web_doc),
                !.turns[t] = [seen EXCEPT !.pc = GENERATE]]
        ELSE [m EXCEPT
                !.lists[t] = Append(@, <<web_doc>>),
                !.turns[t] = [seen EXCEPT !.documents = NewRef(m, t),
                                          !.pc = GENERATE]]

WebSearchTurn ==
    /\ pc = "TURNS"
    /\ \E t \in TurnIds, tavily_results \in TavilyResults, raises \in BOOLEAN :
          /\ mem.turns[t].pc = WEBSEARCH
          /\ mem.turns[t].runs < MaxNodeRuns
          /\ mem' = web_search_node(mem, t, tavily_results, raises)
    /\ UNCHANGED <<svc, pc, last, error, llm, question, documents, web_search,
                   generation, routerOut, gradeIn, gradeOut, hallOut, ansOut,
                   gateResult, genFailed, genRequest, genCount, wsCount>>

\* nodes/generate.py on turn t, followed by the gate: the documents it
\* returns are the list it received
generate_node(m, t, raised, text, hall, ans) ==
    LET turn  == m.turns[t]
        docs  == Deref(m, turn.documents)
        label == grade_generation_grounded_in_documents_and_question(
                     docs, hall, ans)
    IN  [m EXCEPT
           !.turns[t] = [turn EXCEPT
                           !.input = turn.documents,
                           !.input_was = docs,
                           !.runs = @ + 1,
                           !.generation = generate(turn.question, raised, text),
                           !.pc = GenerateEdge(label)]]

GenerateTurn ==
    /\ pc = "TURNS"
    /\ \E t \in TurnIds, raised \in BOOLEAN, text \in GenOutputs,
          hall \in {Answered(RespYes), Answered(RespNoPadded)},
          ans \in {"yes", "no"} :
          /\ mem.turns[t].pc = GENERATE
          /\ mem.turns[t].runs < MaxNodeRuns
          /\ mem' = generate_node(mem, t, raised, text, hall, ans)
    /\ UNCHANGED <<svc, pc, last, error, llm, question, documents, web_search,
                   generation, routerOut, gradeIn, gradeOut, hallOut, ansOut,
                   gateResult, genFailed, genRequest, genCount, wsCount>>

NextObj ==
    \/ StartTurn
    \/ RouteTurn
    \/ RetrieveTurn
    \/ GradeTurn
    \/ WebSearchTurn
    \/ GenerateTurn

SpecObj == InitObj /\ [][NextObj]_vars

\* ------------------------------------------------------- shared notions
ImageDocuments == SelectSeq(documents, IsImage)

Labels == {"not supported", "useful", "not useful"}

\* the label the classifier was asked for, after lower() and strip()
LabelOf(out) == Strip(Lower(out.text))

\* a response that is neither of the two labels
Malformed(out) == out.called /\ ~out.raise /\ LabelOf(out) \notin {RespYes, RespNo}

\* the gate called the Grounding Classifier and got no answer from it
GroundingFailed ==
    ImageDocuments # <<>> /\ (~llm.hallucination \/ hallOut.raise)

\* the Answer Classifier is unavailable or its call raises
AnswerFailed == ~llm.answer \/ ansOut = "raise"

\* --------------------------------------------------------------- claims

\* C1: every step that takes the graph from one node to the next follows
\* the transition table: ROUTE goes to WEBSEARCH on websearch and to
\* RETRIEVE on vectorstore, RETRIEVE to GRADE_DOCUMENTS, GRADE_DOCUMENTS to
\* WEBSEARCH when web_search is true and to GENERATE otherwise, WEBSEARCH to
\* GENERATE, GENERATE to GENERATE on not supported, to END on useful and to
\* WEBSEARCH on not useful; END has no successor. The only other step is a
\* node raising, which aborts the turn.
C1_TransitionTable ==
    [][pc' # "ERROR" =>
         CASE pc = "ROUTE" ->
                \/ routerOut' = "websearch" /\ pc' = WEBSEARCH
                \/ routerOut' = "vectorstore" /\ pc' = RETRIEVE
           [] pc = RETRIEVE -> pc' = GRADE_DOCUMENTS
           [] pc = GRADE_DOCUMENTS ->
                pc' = (IF web_search' THEN WEBSEARCH ELSE GENERATE)
           [] pc = WEBSEARCH -> pc' = GENERATE
           [] pc = GENERATE ->
                \/ gateResult' = "not supported" /\ pc' = GENERATE
                \/ gateResult' = "useful" /\ pc' = END
                \/ gateResult' = "not useful" /\ pc' = WEBSEARCH
           [] OTHER -> FALSE]_vars

\* a turn that retrieved, graded, searched, generated twice and ended
C1_Witness ==
    pc = END /\ gradeIn # <<>> /\ wsCount >= 1 /\ genCount >= 2

\* C2: when the routing classifier is unavailable or its call fails,
\* route_question raises nothing and the turn continues at RETRIEVE.
C2_RouterFailsOpen ==
    (last = "ROUTE" /\ routerOut \in {"unavailable", "raise"})
        => (pc = RETRIEVE /\ error = "none")

\* C3: a turn in which the Retrieve step does not fail is never ended by
\* an exception, whatever the other collaborators return.
C3_OnlyRetrieveFailsTheTurn ==
    pc = "ERROR" => error = RETRIEVE

\* C4: the number of GENERATE executions in a turn never exceeds a fixed
\* maximum (3), and once that many have run the graph is at END.
C4_GenerateBounded ==
    /\ genCount <= 3
    /\ (genCount = 3 /\ last = GENERATE) => pc = END

\* C5 (as stated): whenever the Grounding Classifier or the Answer
\* Classifier raises or is unavailable while the gate runs, the gate
\* returns useful.
C5_AnyFailureGivesUseful ==
    (last = GENERATE /\ (GroundingFailed \/ AnswerFailed))
        => gateResult = "useful"

\* C5 (amended): a failing Grounding Classifier makes the gate treat the
\* generation as grounded, so the gate does not return not supported and
\* the Answer Classifier decides: not useful if it answers no, useful
\* otherwise; a failing Answer Classifier, when the gate calls it, makes
\* the gate return useful and the turn end.
C5_FailOpen ==
    last = GENERATE =>
        /\ GroundingFailed =>
              /\ gateResult # "not supported"
              /\ gateResult = "not useful" <=> (llm.answer /\ ansOut = "no")
        /\ (AnswerFailed /\ gateResult # "not supported") =>
              (gateResult = "useful" /\ pc = END)

\* the grounding call raised and the answer classifier said no
C5_Witness ==
    /\ last = GENERATE
    /\ ImageDocuments # <<>>
    /\ llm.hallucination /\ hallOut.raise
    /\ llm.answer /\ ansOut = "no"
    /\ gateResult = "not useful"

\* both classifiers answer with one of their labels, when called
NoGateFailure ==
    /\ llm.answer /\ ansOut \in {"yes", "no"}
    /\ ImageDocuments # <<>> =>
          /\ llm.hallucination
          /\ ~hallOut.raise
          /\ LabelOf(hallOut) \in {RespYes, RespNo}

\* C6: when no classifier fails, the gate returns one of the three labels:
\* not supported iff there is an image document and the Grounding
\* Classifier answers no (whatever the Answer Classifier answers),
\* otherwise useful iff the Answer Classifier answers yes, else not useful.
C6_GateLabel ==
    (last = GENERATE /\ NoGateFailure) =>
        /\ gateResult \in Labels
        /\ gateResult = "not supported" <=>
              (ImageDocuments # <<>> /\ LabelOf(hallOut) = RespNo)
        /\ gateResult # "not supported" =>
              /\ gateResult = "useful" <=> ansOut = "yes"
              /\ gateResult = "not useful" <=> ansOut = "no"

\* not grounded although the Answer Classifier would have said yes
C6_Witness ==
    /\ last = GENERATE
    /\ NoGateFailure
    /\ gateResult = "not supported"
    /\ ansOut = "yes"
    /\ hallOut.text = RespNoPadded

\* the outcome of a call, had a malformed response been a failed call
AsUnavailable(out) == IF Malformed(out) THEN Raised ELSE out

\* C7: for each classifier a response that does not parse into the
\* expected label has the same outcome as the classifier being unavailable
\* (its call failing): the graded document is kept and web_search is not
\* set because of it, the generation is treated as grounded, the gate
\* returns useful, and the entry decision is the one taken without a
\* routing classifier.
C7_MalformedAsUnavailable ==
    /\ last = GRADE_DOCUMENTS =>
          LET failed == [i \in 1..Len(gradeOut) |-> AsUnavailable(gradeOut[i])]
              r == grade_documents(gradeIn, failed)
          IN  documents = r.documents /\ web_search = r.web_search
    /\ last = GENERATE =>
          gateResult = grade_generation_grounded_in_documents_and_question(
                           documents, AsUnavailable(hallOut),
                           IF ansOut = "none" THEN "raise" ELSE ansOut)
    /\ (last = "ROUTE" /\ routerOut = "none") =>
          (pc = "ERROR") = (route_question("raise") = "RAISE")

\* C8: a failing web search is not propagated: WEBSEARCH still appends one
\* text document (page_number -1, type text) and the turn goes to GENERATE.
C8_SearchFailureAbsorbed ==
    last = WEBSEARCH =>
        /\ error = "none"
        /\ pc = GENERATE
        /\ documents # <<>>
        /\ documents[Len(documents)].page_number = -1
        /\ MetaType(documents[Len(documents)]) = "text"

\* C9: at END, web_search is true iff WEBSEARCH ran in the turn.
C9_FlagIffSearched ==
    pc = END => (web_search <=> wsCount > 0)

\* C10: the request GENERATE sends to the generator carries the text of
\* every text-bearing document in its prompt and not as an image input.
C10_TextInPrompt ==
    (last = GENERATE /\ genRequest # <<>>) =>
        \A i \in 1..Len(documents) :
            MetaType(documents[i]) = "text" =>
                /\ \E j \in 1..Len(genRequest) :
                      /\ genRequest[j].type = "text"
                      /\ Contains(documents[i].page_content, genRequest[j].content)
                /\ \A j \in 1..Len(genRequest) :
                      genRequest[j].type = "image_url" =>
                          genRequest[j].content # documents[i].page_content

\* the range of a sequence
Range(seq) == {seq[i] : i \in 1..Len(seq)}

\* a is obtained from b by deleting elements
RECURSIVE IsSubseq(_, _)
IsSubseq(a, b) ==
    IF a = <<>> THEN TRUE
    ELSE IF b = <<>> THEN FALSE
    ELSE IF Head(a) = Head(b) THEN IsSubseq(Tail(a), Tail(b))
    ELSE IsSubseq(a, Tail(b))

\* the relevance call for document i of the batch failed or could not be made
GradeFailed(i) == ~llm.retrieval \/ gradeOut[i].raise

\* the relevance classifier answered the given label for document i
GradedAs(i, label) == ~GradeFailed(i) /\ LabelOf(gradeOut[i]) = label

\* C11: if at least one document of the batch is graded irrelevant (the
\* classifier answers no), grade_documents returns web_search true, wherever
\* that document stands and whatever happens to the other documents.
C11_OneIrrelevantSetsFlag ==
    (last = GRADE_DOCUMENTS /\ \E i \in 1..Len(gradeIn) : GradedAs(i, RespNo))
        => web_search

\* an irrelevant first document followed by a relevant and a failed one
C11_Witness ==
    /\ last = GRADE_DOCUMENTS
    /\ Len(gradeIn) = 3
    /\ GradedAs(1, RespNo) /\ GradedAs(2, RespYes) /\ gradeOut[3].raise
    /\ llm.retrieval
    /\ web_search

\* C12: the documents returned by grade_documents are a subsequence of the
\* batch: never longer, nothing new, retained documents in input order.
C12_OutputIsSubsequence ==
    last = GRADE_DOCUMENTS =>
        /\ Len(documents) <= Len(gradeIn)
        /\ Range(documents) \subseteq Range(gradeIn)
        /\ IsSubseq(documents, gradeIn)

\* the middle document of three dropped, the outer two kept in order
C12_Witness ==
    /\ last = GRADE_DOCUMENTS
    /\ Len(gradeIn) = 3
    /\ documents = <<gradeIn[1], gradeIn[3]>>

\* C13: a document whose relevance classification fails is kept and does
\* not set web_search, and the rest of the batch is still graded: every
\* document answered yes is kept, every document answered no is dropped and
\* sets web_search.
C13_FailedDocumentKept ==
    last = GRADE_DOCUMENTS =>
        /\ \A i \in 1..Len(gradeIn) :
              /\ GradeFailed(i) => gradeIn[i] \in Range(documents)
              /\ GradedAs(i, RespYes) => gradeIn[i] \in Range(documents)
              /\ GradedAs(i, RespNo) =>
                    (gradeIn[i] \notin Range(documents) /\ web_search)
        /\ (\A i \in 1..Len(gradeIn) : GradeFailed(i) \/ GradedAs(i, RespYes))
              => ~web_search

\* the first call raises; the second document is still graded and dropped
C13_Witness ==
    /\ last = GRADE_DOCUMENTS
    /\ llm.retrieval
    /\ Len(gradeIn) = 2
    /\ gradeOut[1].raise /\ GradedAs(2, RespNo)
    /\ documents = <<gradeIn[1]>>
    /\ web_search

\* C14: when the working set holds no image-bearing document the gate does
\* not consult the Grounding Classifier and never returns not supported:
\* whatever that classifier would answer, the result is the Answer
\* Classifier's alone.
C14_TextOnlySkipsGrounding ==
    (last = "gate" /\ ImageDocuments = <<>>) =>
        /\ gateResult # "not supported"
        /\ gateResult =
              (IF llm.answer /\ ansOut = "no" THEN "not useful" ELSE "useful")

\* a text-only working set, a grounding answer of no and an answer of yes
C14_Witness ==
    /\ last = "gate"
    /\ documents = <<WebDoc(<<"snippet">>)>>
    /\ llm.hallucination /\ LabelOf(hallOut) = RespNo
    /\ llm.answer /\ ansOut = "yes"
    /\ gateResult = "useful"

C16_RetrieveFailureEndsTurn ==
    error = RETRIEVE =>
        /\ pc = "ERROR"
        /\ last = RETRIEVE
        /\ documents = <<>> /\ gradeIn = <<>> /\ gradeOut = <<>>
        /\ genCount = 0 /\ wsCount = 0
        /\ generation = <<>>

\* the turn was routed to the vectorstore and the lookup failed
C16_Witness ==
    error = RETRIEVE /\ routerOut = "vectorstore" /\ pc = "ERROR"

\* C17 (as stated): AgenticRAGService.query returns a response string and
\* lets no exception escape in every reachable state of the service, before
\* and after any upload: no query call ever ends by raising.
C17_QueryNeverRaises ==
    \A c \in 1..MaxCalls : svc.calls[c].state # "raised"

\* C17 (amended): once an upload has completed (is_initialized), every step
\* of a query call either suspends it on the graph or returns a response
\* string about its question, whatever the session id, the session dict and
\* the graph's outcome; before any upload the call raises instead.
C17_QueryReturnsOnceUploaded ==
    [][\A c \in 1..MaxCalls :
          svc'.calls[c] # svc.calls[c] =>
              /\ svc.is_initialized =>
                    svc'.calls[c].state \in {"suspended", "returned"}
              /\ ~svc.is_initialized => svc'.calls[c].state = "raised"
              /\ svc'.calls[c].state = "returned" =>
                    /\ svc'.calls[c].response.kind
                          \in {"answer", "placeholder", "error"}
                    /\ svc'.calls[c].response.question
                          = svc'.calls[c].question]_vars

\* after an upload, a call for a session id the service does not know ended
\* in the error response, and another call met a session dict that has no
\* conversation history
C17_Witness ==
    /\ svc.is_initialized
    /\ \E c \in 1..MaxCalls :
          /\ svc.calls[c].state = "returned"
          /\ svc.calls[c].response = generate_error_response(
                                         svc.calls[c].question, "graph")
          /\ svc.session_states[svc.calls[c].session_id] = 0
    /\ \E c \in 1..MaxCalls :
          /\ svc.calls[c].state = "returned"
          /\ svc.calls[c].response = generate_error_response(
                                         svc.calls[c].question, "KeyError")

\* C18: WEBSEARCH appends and never replaces: after it the documents are
\* the ones it received, in the same order, followed by one new document.
C18_SearchAppends ==
    [][(pc = WEBSEARCH /\ pc' # "ERROR") =>
         /\ Len(documents') = Len(documents) + 1
         /\ SubSeq(documents', 1, Len(documents)) = documents]_vars

\* a retrieved page kept by grading, followed by two search documents
C18_Witness ==
    /\ wsCount = 2 /\ error = "none"
    /\ Len(documents) = 3
    /\ documents[1] \in Range(gradeIn)
    /\ MetaType(documents[2]) = "text" /\ MetaType(documents[3]) = "text"

\* searches that returned so far
CompletedSearches == wsCount - (IF error = WEBSEARCH THEN 1 ELSE 0)

\* the shape web_search gives its documents
IsWebDoc(doc) ==
    doc.page_number = -1 /\ MetaType(doc) = "text" /\ doc.metadata.source = "web_search"

\* C19: every document produced by WEBSEARCH has page_number -1 and type
\* text, and every document with page_number -1 or type text was produced
\* by WEBSEARCH: the documents of the working set that carry either mark
\* are exactly the last ones, one per search, and the documents RETRIEVE
\* produced carry neither.
C19_WebDocumentsMarked ==
    LET n == Len(documents)
        marked == {i \in 1..n : documents[i].page_number = -1
                                  \/ MetaType(documents[i]) = "text"}
    IN  /\ \A i \in marked : IsWebDoc(documents[i])
        /\ marked = (n - CompletedSearches + 1)..n
        /\ \A i \in 1..Len(gradeIn) :
              gradeIn[i].page_number >= 0 /\ MetaType(gradeIn[i]) # "text"

\* a working set with one retrieved page and one search document
C19_Witness ==
    /\ Len(documents) = 2
    /\ documents[1] \in Range(gradeIn) /\ documents[1].page_number = 1
    /\ IsWebDoc(documents[2])
    /\ pc = END

\* C20: the routing decision is taken once, before any node runs; RETRIEVE
\* runs only right after it and GRADE_DOCUMENTS only right after RETRIEVE,
\* so each runs at most once and never after GENERATE or WEBSEARCH.
C20_RouteAndRetrieveOnce ==
    [][/\ last' # "START"
       /\ (pc = "ROUTE") <=> (last = "START")
       /\ pc = RETRIEVE => (last = "ROUTE" /\ genCount = 0 /\ wsCount = 0)
       /\ pc = GRADE_DOCUMENTS => (last = RETRIEVE /\ genCount = 0 /\ wsCount = 0)
       /\ pc' \in {"ROUTE", RETRIEVE, GRADE_DOCUMENTS} => (genCount' = 0 /\ wsCount' = 0)]_vars

\* a turn that retrieved once and then regenerated and escalated
C20_Witness ==
    /\ routerOut = "vectorstore"
    /\ gradeIn # <<>>
    /\ genCount = 3 /\ wsCount = 2
    /\ pc = END

\* C21: whenever the gate returns not supported the next step is GENERATE
\* again, with nothing retrieved or searched in between, on the same
\* documents in the same order and the same question (the same request is
\* sent to the generator); if the gate returns useful on that new generation
\* the turn ends with it as the answer.
C21_RegenerateOnSameDocuments ==
    [][/\ (last' = GENERATE /\ gateResult' = "not supported") => pc' = GENERATE
       /\ (last = GENERATE /\ gateResult = "not supported") =>
             /\ last' = GENERATE
             /\ genCount' = genCount + 1 /\ wsCount' = wsCount
             /\ documents' = documents /\ question' = question
             /\ gradeIn' = gradeIn /\ web_search' = web_search
             /\ llm.generation =>
                   (genRequest' = RequestParts(documents, question)
                    /\ genRequest' = genRequest)
             /\ gateResult' = "useful" =>
                   /\ pc' = END
                   /\ \E text \in GenOutputs :
                         generation' = generate(question, genFailed', text)]_vars

\* a turn over one retrieved page that generated twice without any search
\* and ended on the second generation
C21_Witness ==
    /\ pc = END
    /\ genCount = 2 /\ wsCount = 0
    /\ Len(documents) = 1 /\ documents = gradeIn
    /\ llm.generation /\ ~genFailed
    /\ gateResult = "useful"

\* the relevance grade of document i of the batch, as grade_documents reads it
GradeOf(i) == retrieval_grader(gradeOut[i])

\* the documents of the batch not graded irrelevant, in batch order
RECURSIVE KeptFrom(_)
KeptFrom(i) ==
    IF i > Len(gradeIn) THEN <<>>
    ELSE (IF GradeOf(i) = "yes" THEN <<gradeIn[i]>> ELSE <<>>) \o KeptFrom(i + 1)

Retained == KeptFrom(1)

\* C22: whenever the graded batch holds at least one document graded
\* irrelevant, web_search is true, the step after GRADE_DOCUMENTS is
\* WEBSEARCH and no GENERATE runs before it; a search that returns appends
\* exactly one text document to the retained documents, and the first
\* GENERATE runs over the retained image documents followed by that one
\* text document, of which only the images are sent as image inputs.
C22_IrrelevantLeadsToSearch ==
    (last # RETRIEVE /\ \E i \in 1..Len(gradeIn) : GradeOf(i) = "no") =>
        /\ web_search
        /\ genCount >= 1 => wsCount >= 1
        /\ last = GRADE_DOCUMENTS =>
              (pc = WEBSEARCH /\ documents = Retained)
        /\ (last = WEBSEARCH /\ genCount = 0 /\ error = "none") =>
              /\ pc = GENERATE
              /\ wsCount = 1
              /\ Len(documents) = Len(Retained) + 1
              /\ SubSeq(documents, 1, Len(Retained)) = Retained
              /\ IsWebDoc(documents[Len(documents)])
        /\ last = GENERATE =>
              /\ genCount = 1 /\ wsCount = 1
              /\ Len(documents) = Len(Retained) + 1
              /\ SubSeq(documents, 1, Len(Retained)) = Retained
              /\ \A i \in 1..Len(Retained) : IsImage(documents[i])
              /\ IsWebDoc(documents[Len(documents)])
              /\ genRequest = RequestParts(documents, question)
              /\ Len(genRequest) = Len(Retained) + 1

\* a batch of two with the second page graded irrelevant: the first
\* GENERATE ran over one image and one text document
C22_Witness ==
    /\ last = GENERATE
    /\ Len(gradeIn) = 2
    /\ GradedAs(1, RespYes) /\ GradedAs(2, RespNo)
    /\ Len(documents) = 2
    /\ documents[1] = gradeIn[1] /\ IsImage(documents[1])
    /\ IsWebDoc(documents[2])

\* C23: whenever the router classifies the question as websearch, the turn
\* starts at WEBSEARCH, RETRIEVE and GRADE_DOCUMENTS never run, no GENERATE
\* runs before the search, and the first GENERATE receives exactly one
\* document, the text document WEBSEARCH produced, and sends no image input.
C23_WebsearchRouteSkipsRetrieve ==
    routerOut = "websearch" =>
        /\ pc \notin {RETRIEVE, GRADE_DOCUMENTS}
        /\ last \notin {RETRIEVE, GRADE_DOCUMENTS}
        /\ gradeIn = <<>> /\ gradeOut = <<>>
        /\ last = "ROUTE" => (pc = WEBSEARCH /\ documents = <<>>)
        /\ genCount >= 1 => wsCount >= 1
        /\ (last = GENERATE /\ genCount = 1) =>
              /\ wsCount = 1
              /\ Len(documents) = 1
              /\ IsWebDoc(documents[1])
              /\ llm.generation =>
                    genRequest = <<[type |-> "text",
                                    content |-> PromptText(question)]>>

\* a websearch-routed turn ended by its first GENERATE over the search text
C23_Witness ==
    /\ routerOut = "websearch"
    /\ pc = END /\ genCount = 1 /\ wsCount = 1
    /\ documents = <<WebDoc(<<"snippet">>)>>
    /\ llm.generation /\ generation \in GenOutputs

\* the first generation is judged grounded by the Grounding Classifier
\* (asked only when there is an image document) and useful by the Answer
\* Classifier
JudgedGroundedAndUseful ==
    /\ ImageDocuments # <<>> => hallucination_grader(hallOut)
    /\ ansOut = "yes"

\* C24: whenever the question was routed to the vectorstore and every
\* document of the retrieved batch is graded relevant, web_search is false
\* and GRADE_DOCUMENTS is followed by GENERATE over the whole batch in its
\* order; if that first generation is judged grounded and useful the turn
\* ends there, WEBSEARCH never having run, with web_search false, documents
\* equal to the retrieved batch and a non-empty generation.
C24_AllRelevantEndsAfterOneGenerate ==
    (/\ routerOut = "vectorstore"
     /\ last \in {GRADE_DOCUMENTS, GENERATE}
     /\ \A i \in 1..Len(gradeIn) : GradeOf(i) = "yes") =>
        /\ ~web_search
        /\ wsCount = 0
        /\ documents = gradeIn
        /\ last = GRADE_DOCUMENTS => pc = GENERATE
        /\ (last = GENERATE /\ JudgedGroundedAndUseful) =>
              /\ pc = END
              /\ genCount = 1
              /\ gateResult = "useful"
              /\ generation # <<>>

\* a batch of three pages, all answered yes, grounded and useful: the
\* turn is at END with the three pages in their order
C24_Witness ==
    /\ pc = END
    /\ Len(gradeIn) = 3
    /\ \A i \in 1..3 : GradedAs(i, RespYes)
    /\ documents = <<ImageDocOf(StorePoint(0)), ImageDocOf(StorePoint(1)),
                     ImageDocOf(StorePoint(2))>>
    /\ LabelOf(hallOut) = RespYes /\ ansOut = "yes"
    /\ ~web_search /\ wsCount = 0 /\ genCount = 1
    /\ generation = <<"answer">>

IsText(doc) == MetaType(doc) = "text"

TextDocuments == SelectSeq(documents, IsText)

\* C27: in every state of a turn the text-bearing documents of the working
\* set are as many as the searches that have returned, and from
\* GRADE_DOCUMENTS on the image-bearing documents are the ones it retained,
\* in order; so every not useful result leads to WEBSEARCH, and a search that
\* returns leaves the working set one text document longer for the next
\* GENERATE.
C27_OneTextDocumentPerSearch ==
    [][/\ Len(SelectSeq(documents', IsText)) =
             wsCount' - (IF error' = WEBSEARCH THEN 1 ELSE 0)
       /\ last' \notin {"START", "ROUTE", RETRIEVE} =>
             SelectSeq(documents', IsImage) =
                 grade_documents(gradeIn', gradeOut').documents
       /\ (last' = GENERATE /\ gateResult' = "not useful") => pc' = WEBSEARCH
       /\ (last = GENERATE /\ gateResult = "not useful" /\ pc' # "ERROR") =>
             /\ pc' = GENERATE
             /\ Len(documents') = Len(documents) + 1
             /\ SelectSeq(documents', IsImage) = SelectSeq(documents, IsImage)
             /\ Len(SelectSeq(documents', IsText))
                   = Len(SelectSeq(documents, IsText)) + 1]_vars

\* three passes of the cycle over one retained page: three text documents
C27_Witness ==
    /\ genCount = 4 /\ wsCount = 3 /\ error = "none"
    /\ Len(ImageDocuments) = 1 /\ ImageDocuments = gradeIn
    /\ Len(TextDocuments) = 3
    /\ Len(documents) = 4

\* RETRIEVE returned no document and GRADE_DOCUMENTS has run on the empty batch
ZeroDocumentPath ==
    /\ routerOut = "vectorstore"
    /\ last \in {GRADE_DOCUMENTS, GENERATE, WEBSEARCH}
    /\ gradeIn = <<>>

\* C28: when RETRIEVE returns no document, grade_documents returns an empty
\* list with web_search false and the graph goes to GENERATE, not to
\* WEBSEARCH; as long as nothing was searched the working set is empty,
\* the gate does not ask the Grounding Classifier and never returns not
\* supported, and the graph reaches WEBSEARCH only from a gate where the
\* Answer Classifier answered no. After any grade_documents, web_search is
\* true iff the returned list is strictly shorter than the batch.
C28_EmptyBatchGoesToGenerate ==
    /\ ZeroDocumentPath =>
          /\ ~web_search
          /\ ImageDocuments = <<>>
          /\ last = GRADE_DOCUMENTS => (documents = <<>> /\ pc = GENERATE)
          /\ wsCount = 0 => documents = <<>>
          /\ last = GENERATE =>
                /\ ~hallOut.called
                /\ gateResult # "not supported"
          /\ pc = WEBSEARCH =>
                /\ last = GENERATE
                /\ llm.answer /\ ansOut = "no"
                /\ gateResult = "not useful"
    /\ last = GRADE_DOCUMENTS =>
          (web_search <=> Len(documents) < Len(gradeIn))

\* an empty batch, a generation without evidence, and the Answer
\* Classifier sending the turn to WEBSEARCH
C28_Witness ==
    /\ ZeroDocumentPath
    /\ pc = WEBSEARCH
    /\ genCount = 1 /\ wsCount = 0
    /\ documents = <<>>
    /\ llm.hallucination /\ ~hallOut.called
    /\ ansOut = "no"

\* the conversation history stored for a session id (get_conversation_history)
StoredHistory(s, sid) ==
    IF s.session_states[sid] # 0 /\ s.heap[s.session_states[sid]].has_history
    THEN s.heap[s.session_states[sid]].conversation_history
    ELSE <<>>

\* the history entry of the exchange a returned call reports
EntryOf(call) ==
    [question        |-> call.question,
     answer          |-> call.response.body,
     documents_used  |-> call.response.documents_line,
     web_search_used |-> call.response.web_line]

\* call c returns in this step, its graph run having completed
GraphRunCompleted(c) ==
    /\ svc.calls[c].state = "suspended"
    /\ svc'.calls[c].state = "returned"
    /\ svc'.calls[c].response
          # generate_error_response(svc.calls[c].question, "graph")

\* C29: for every session state reachable through ingest_pdf, query and
\* clear_session, whenever the graph run inside query completes, query
\* returns the formatted answer and the history stored for that session id
\* is the former one with exactly one entry added, holding the question,
\* the answer, documents_used and web_search_used.
C29_CompletedRunIsRecorded ==
    [][\A c \in 1..MaxCalls :
          GraphRunCompleted(c) =>
              LET call == svc'.calls[c]
                  sid  == call.session_id
              IN  /\ call.response.kind = "answer"
                  /\ StoredHistory(svc', sid) =
                        Append(StoredHistory(svc, sid), EntryOf(call))]_vars

\* the two calls were suspended on their graph runs at the same time
Overlapped(c, d) ==
    d \in svc.calls[c].during \/ c \in svc.calls[d].during

\* C30: when two query calls on the same session id overlap and both
\* complete, the exchange of the one that returned first, still in the
\* stored history, is there after the other returns, together with the
\* exchange of that other call.
C30_NoExchangeLost ==
    [][\A c, d \in 1..MaxCalls :
          (/\ c # d
           /\ GraphRunCompleted(c)
           /\ svc'.calls[c].response.kind = "answer"
           /\ svc.calls[d].state = "returned"
           /\ svc.calls[d].response.kind = "answer"
           /\ svc.calls[d].session_id = svc.calls[c].session_id
           /\ Overlapped(c, d)
           /\ EntryOf(svc.calls[d])
                 \in Range(StoredHistory(svc, svc.calls[d].session_id))) =>
              {EntryOf(svc.calls[d]), EntryOf(svc'.calls[c])}
                  \subseteq Range(StoredHistory(svc', svc.calls[c].session_id))]_vars

Started(turn) == turn.pc # "idle"

\* C25: in any interleaving of two turns started through query, a turn
\* starts from a new empty documents list, web_search false and an empty
\* generation; every list a turn holds is one it created itself and no other
\* turn holds it; and a step of one turn changes neither the graph state of
\* the other turn nor any list the other turn created, so nothing one turn
\* appends, sets or writes shows in the state or the result of the other.
C25_TurnsAreIsolated ==
    [][\A t, u \in TurnIds :
          (t # u /\ mem'.turns[t] # mem.turns[t]) =>
              /\ mem'.turns[u] = mem.turns[u]
              /\ mem'.lists[u] = mem.lists[u]
              /\ mem'.turns[t].documents.owner = t
              /\ Started(mem.turns[u]) =>
                    mem'.turns[t].documents # mem.turns[u].documents
              /\ ~Started(mem.turns[t]) =>
                    /\ mem'.turns[t].pc = "ROUTE"
                    /\ Deref(mem', mem'.turns[t].documents) = <<>>
                    /\ ~mem'.turns[t].web_search
                    /\ mem'.turns[t].generation = <<>>]_vars

\* turn 2 has ended on a search document of its own while turn 1, on
\* another question, has had a search document appended to its graded page
C25_Witness ==
    /\ mem.turns[1].pc = GENERATE
    /\ mem.turns[1].question = "q1"
    /\ Len(Deref(mem, mem.turns[1].documents)) = 2
    /\ IsImage(Deref(mem, mem.turns[1].documents)[1])
    /\ mem.turns[1].generation # <<>>
    /\ mem.turns[2].pc = END
    /\ mem.turns[2].question = "q2"
    /\ Deref(mem, mem.turns[2].documents) = <<WebDoc(<<"snippet">>)>>
    /\ ~mem.turns[2].web_search

\* C26: no node modifies in place the documents list it received: after a
\* node of a turn has returned, the list object that was in its input
\* state holds what it held when the node started, and documents that
\* differ from that are in another list object.
C26_NoInPlaceMutation ==
    \A t \in TurnIds :
        (mem.turns[t].runs > 0 /\ mem.turns[t].pc # "ERROR") =>
            /\ Deref(mem, mem.turns[t].input) = mem.turns[t].input_was
            /\ Deref(mem, mem.turns[t].documents) # mem.turns[t].input_was
                  => mem.turns[t].documents # mem.turns[t].input

====
